---- MODULE Spec2Model ----
(***************************************************************************)
(* A model of my_web_server: the byte-oriented router (router/src/lib.rs), *)
(* the worker pool (pool/src/lib.rs, pool/src/worker.rs) and the           *)
(* per-connection HTTP handler (http_server/src/lib.rs).                   *)
(*                                                                         *)
(* Three specifications share the variables; each one moves only the       *)
(* variables of its own subsystem:                                         *)
(*   SpecRouter  add_path / route on one Router                            *)
(*   SpecPool    ThreadPool::new / do_work / join and the worker threads   *)
(*   SpecHttp    HttpServer::handle_connection on one TcpStream            *)
(***************************************************************************)
EXTENDS Integers, Sequences, FiniteSets, TLC

VARIABLES
    \* ---- router ----
    router,      \* the Router tree, as an arena of nodes; node 1 is the root
    registered,  \* the add_path calls made so far, in order
    routed,      \* the last route call and what it returned
    \* ---- pool ----
    workerNum,   \* worker_num given to ThreadPool::new
    channel,     \* the unbounded crossbeam channel, a FIFO of WorkerMessage
    worker,      \* per worker thread: pc, panic_occurred, the task it runs
    tasks,       \* the tasks handed to do_work, in submission order
    executed,    \* per task: how many times a worker has run it
    ranOn,       \* per task: the worker that ran it (0: none yet)
    mainPc,      \* the thread that owns the pool: "work", "join", "done", "accept_error"
    resigns,     \* Resign messages join has sent so far
    joined,      \* the Vec<WorkerResult> join is collecting
    \* ---- http ----
    wire,        \* lines that arrived on the socket and no read has taken yet
    clientOpen,  \* the client has not closed its end of the connection
    sent,        \* every line the client sent on this connection, in order
    frames,      \* the handle_connection activations made so far, outermost first
    written,     \* what was written to the socket, in order
    routeCalls,  \* the router.route calls made for this connection, in order
    connResult   \* the Result the outermost handle_connection returned

routerVars == <<router, registered, routed>>
poolVars == <<workerNum, channel, worker, tasks, executed, ranOn, mainPc, resigns, joined>>
httpVars == <<wire, clientOpen, sent, frames, written, routeCalls, connResult>>
vars == <<routerVars, poolVars, httpVars>>

----------------------------------------------------------------------------
(* Bytes and path strings *)

\* The 0 byte that ends a child key in matches, and the byte of '/'.
NUL == 0
Slash == 47

\* The bytes path strings are drawn from: '/', 'a' and 'b'.
PathBytes == {Slash, 97, 98}

\* Longest path string given to add_path and route.
MaxPathLen == 2

\* Most add_path calls made on one router.
MaxAdds == 3

Strings(alphabet, n) == UNION {[1..k -> alphabet] : k \in 0..n}

Paths == Strings(PathBytes, MaxPathLen)

None == [some |-> FALSE]
Some(v) == [some |-> TRUE, value |-> v]

\* RouterPath::from(&str): path.split('/'), each part as bytes. An empty string
\* gives one empty part; leading, trailing and adjacent slashes give empty parts.
RECURSIVE SplitFrom(_, _, _)
SplitFrom(s, i, cur) ==
    IF i > Len(s) THEN <<cur>>
    ELSE IF s[i] = Slash THEN <<cur>> \o SplitFrom(s, i + 1, <<>>)
    ELSE SplitFrom(s, i + 1, Append(cur, s[i]))

RouterPathFrom(s) == SplitFrom(s, 1, <<>>)

----------------------------------------------------------------------------
(* Router *)

\* Router::default(): no endpoint, no matches, no child routers.
RouterDefault == [endpoint |-> None, matches |-> <<>>, routers |-> <<>>]

\* The inner 'skip_zeros loop: advance current_match_index past the next 0 byte
\* (counting one path boundary), or to the end of matches.
RECURSIVE SkipZeros(_, _, _)
SkipZeros(matches, mi, cp) ==
    IF mi >= Len(matches) THEN [mi |-> mi, cp |-> cp]
    ELSE IF matches[mi + 1] = NUL THEN [mi |-> mi + 1, cp |-> cp + 1]
    ELSE SkipZeros(matches, mi + 1, cp)

\* The 'match_loop of find_path_part_match, indices 0-based as in the source:
\* mi = current_match_index, pi = current_path_index, cp = current_path.
RECURSIVE MatchLoop(_, _, _, _, _)
MatchLoop(matches, path, mi, pi, cp) ==
    IF ~(pi <= Len(path) /\ mi < Len(matches)) THEN None
    ELSE IF matches[mi + 1] = NUL
         THEN IF pi >= Len(path) THEN Some(cp)
              ELSE MatchLoop(matches, path, mi + 1, 0, cp + 1)
         ELSE IF pi < Len(path)
              THEN IF matches[mi + 1] # path[pi + 1]
                   THEN LET s == SkipZeros(matches, mi, cp)
                        IN  MatchLoop(matches, path, s.mi, 0, s.cp)
                   ELSE MatchLoop(matches, path, mi + 1, pi + 1, cp)
              ELSE None

\* A lookup that counts children from one instead of zero.
find_one_based(node, path) ==
    LET m == MatchLoop(node.matches, path, 0, 0, 0)
    IN  IF m.some THEN Some(m.value + 1) ELSE None

find_path_part_match(node, path) == MatchLoop(node.matches, path, 0, 0, 0)

\* Endpoint::process: the value R an endpoint returns. The model's endpoints return
\* what they were invoked with, so a result names the endpoint and its path_overload.
process(endpoint, path_overload) ==
    [endpoint |-> endpoint.id, path_overload |-> path_overload]

\* An add_path loop that writes the 0 byte before the key instead of after it.
RECURSIVE AddWalkNulFirst(_, _, _, _)
AddWalkNulFirst(nodes, cur, parts, i) ==
    IF i > Len(parts) THEN [nodes |-> nodes, cur |-> cur, panic |-> FALSE]
    ELSE LET m == find_path_part_match(nodes[cur], parts[i])
         IN  IF m.some
             THEN IF m.value >= Len(nodes[cur].routers)
                  THEN [nodes |-> nodes, cur |-> cur, panic |-> TRUE]
                  ELSE AddWalkNulFirst(nodes, nodes[cur].routers[m.value + 1], parts,
                                       i + 1)
             ELSE LET new == Len(nodes) + 1
                      grown == [nodes EXCEPT ![cur].matches = @ \o <<NUL>> \o parts[i],
                                             ![cur].routers = Append(@, new)]
                  IN  AddWalkNulFirst(Append(grown, RouterDefault), new, parts, i + 1)

\* The for loop of add_path from segment i on, current_router = nodes[cur].
\* panic: routers[match_index] indexed past the end of routers.
RECURSIVE AddWalk(_, _, _, _)
AddWalk(nodes, cur, parts, i) ==
    IF i > Len(parts) THEN [nodes |-> nodes, cur |-> cur, panic |-> FALSE]
    ELSE LET m == find_path_part_match(nodes[cur], parts[i])
         IN  IF m.some
             THEN IF m.value >= Len(nodes[cur].routers)
                  THEN [nodes |-> nodes, cur |-> cur, panic |-> TRUE]
                  ELSE AddWalk(nodes, nodes[cur].routers[m.value + 1], parts, i + 1)
             ELSE LET new == Len(nodes) + 1
                      grown == [nodes EXCEPT ![cur].matches = @ \o parts[i] \o <<NUL>>,
                                             ![cur].routers = Append(@, new)]
                  IN  AddWalk(Append(grown, RouterDefault), new, parts, i + 1)

\* Router::add_path: walk or create one child per segment, then set the endpoint
\* of the node reached.
add_path(nodes, path, endpoint) ==
    LET w == AddWalk(nodes, 1, RouterPathFrom(path), 1)
    IN  IF w.panic THEN w.nodes
        ELSE [w.nodes EXCEPT ![w.cur].endpoint = Some(endpoint)]

add_path_panics(nodes, path) == AddWalk(nodes, 1, RouterPathFrom(path), 1).panic

\* The for loop of route from segment i on (path_index = i - 1).
RECURSIVE RouteWalk(_, _, _, _, _)
RouteWalk(nodes, cur, parts, i, last) ==
    IF i > Len(parts)
    THEN [cur |-> cur, failed_to_match |-> FALSE, last_path_index |-> last, panic |-> FALSE]
    ELSE LET m == find_path_part_match(nodes[cur], parts[i])
         IN  IF m.some
             THEN IF m.value >= Len(nodes[cur].routers)
                  THEN [cur |-> cur, failed_to_match |-> FALSE,
                        last_path_index |-> Some(i - 1), panic |-> TRUE]
                  ELSE RouteWalk(nodes, nodes[cur].routers[m.value + 1], parts, i + 1,
                                 Some(i - 1))
             ELSE [cur |-> cur, failed_to_match |-> TRUE, last_path_index |-> last,
                   panic |-> FALSE]

Panicked == [some |-> FALSE, panic |-> TRUE]

\* A route whose non-strict overload starts after the last matched segment.
routeUnmatchedOnly(nodes, path) ==
    LET parts == RouterPathFrom(path)
        w == RouteWalk(nodes, 1, parts, 1, None)
        ep == nodes[w.cur].endpoint
    IN  IF w.panic THEN Panicked
        ELSE IF ~ep.some THEN None
        ELSE IF ep.value.strict
             THEN IF ~w.failed_to_match THEN Some(process(ep.value, <<>>)) ELSE None
             ELSE IF w.last_path_index.some
                  THEN Some(process(ep.value,
                            SubSeq(parts, w.last_path_index.value + 2, Len(parts))))
                  ELSE Some(process(ep.value, <<>>))

\* A route that invokes a strict endpoint whether or not the walk failed.
routeStrictAnyway(nodes, path) ==
    LET parts == RouterPathFrom(path)
        w == RouteWalk(nodes, 1, parts, 1, None)
        ep == nodes[w.cur].endpoint
    IN  IF w.panic THEN Panicked
        ELSE IF ~ep.some THEN None
        ELSE IF ep.value.strict
             THEN Some(process(ep.value, <<>>))
             ELSE IF w.last_path_index.some
                  THEN Some(process(ep.value,
                            SubSeq(parts, w.last_path_index.value + 1, Len(parts))))
                  ELSE Some(process(ep.value, <<>>))

\* Router::route: Some(the endpoint's result), None, or a panic (index out of bounds).
route(nodes, path) ==
    LET parts == RouterPathFrom(path)
        w == RouteWalk(nodes, 1, parts, 1, None)
        ep == nodes[w.cur].endpoint
    IN  IF w.panic THEN Panicked
        ELSE IF ~ep.some THEN None
        ELSE IF ep.value.strict
             THEN IF ~w.failed_to_match THEN Some(process(ep.value, <<>>)) ELSE None
             ELSE IF w.last_path_index.some
                  THEN Some(process(ep.value,
                            SubSeq(parts, w.last_path_index.value + 1, Len(parts))))
                  ELSE Some(process(ep.value, <<>>))

NotRouted == [called |-> FALSE]

RouterInit ==
    /\ router = <<RouterDefault>>
    /\ registered = <<>>
    /\ routed = NotRouted

\* router.add_path(p, e) with a fresh endpoint e (its id is the call's number).
AddPath(p, strict) ==
    /\ Len(registered) < MaxAdds
    /\ ~add_path_panics(router, p)
    /\ LET e == [id |-> Len(registered) + 1, strict |-> strict]
       IN  /\ router' = add_path(router, p, e)
           /\ registered' = Append(registered, [path |-> p, endpoint |-> e])
    /\ routed' = NotRouted
    /\ UNCHANGED <<poolVars, httpVars>>

\* router.route(p, data): routed keeps the call made on the router as it stands.
Route(p) ==
    /\ routed' = [called |-> TRUE, path |-> p, result |-> route(router, p)]
    /\ UNCHANGED <<router, registered, poolVars, httpVars>>

AddPathAny == \E p \in Paths, strict \in BOOLEAN : AddPath(p, strict)

RouteAny == \E p \in Paths : Route(p)

RouterNext == AddPathAny \/ RouteAny

\* Path strings that may hold a 0 byte (a &str may: "\0" is valid UTF-8), their
\* longest length and the most add_path calls made with them.
MaxNulLen == 2
MaxNulAdds == 2
NulPaths == Strings({NUL, Slash, 97}, MaxNulLen)

AddNulPathAny ==
    /\ Len(registered) < MaxNulAdds
    /\ \E p \in NulPaths, strict \in BOOLEAN : AddPath(p, strict)

RouteNulAny == \E p \in NulPaths : Route(p)

RouterNulNext == AddNulPathAny \/ RouteNulAny

----------------------------------------------------------------------------
(* Worker pool *)

\* Largest worker_num given to ThreadPool::new (0 is a legal usize and is drawn too).
MaxWorkers == 2

\* Most tasks handed to do_work on one pool.
MaxTasks == 2

Workers == 1..workerNum

Work(t) == [kind |-> "Work", task |-> t]
Resign == [kind |-> "Resign"]

\* Worker::spawn: a running thread with panic_occurred = false, about to call recv.
WorkerSpawn == [pc |-> "recv", panic_occurred |-> FALSE, task |-> 0, result |-> "none"]

\* The value the worker thread returns after its loop.
WorkerResultOf(panic_occurred) == IF panic_occurred THEN "Panic" ELSE "Ok"

\* A channel that hands out the newest message first.
ReceiveNewest(ch) == [message |-> ch[Len(ch)], rest |-> SubSeq(ch, 1, Len(ch) - 1)]

\* A broadcast channel: recv hands out the oldest message and leaves it queued.
ReceiveAndKeep(ch) == [message |-> Head(ch), rest |-> ch]

\* receiver.recv() on a non-empty channel: the oldest message, and what stays queued.
Receive(ch) == [message |-> Head(ch), rest |-> Tail(ch)]

\* One Resign too few.
ResignsOneShort == IF workerNum = 0 THEN 0 ELSE workerNum - 1

\* One Resign too many.
ResignsOneMore == workerNum + 1

\* How many Resign messages join sends: for _ in 0..self.workers.len().
ResignsToSend == workerNum

\* ThreadPool::new(worker_num, state): the channel is empty and every worker spawned.
PoolInit ==
    /\ workerNum \in 0..MaxWorkers
    /\ channel = <<>>
    /\ worker = [w \in Workers |-> WorkerSpawn]
    /\ tasks = <<>>
    /\ executed = <<>>
    /\ ranOn = <<>>
    /\ mainPc = "work"
    /\ resigns = 0
    /\ joined = <<>>

\* pool.do_work(work): send Work(work). The task either panics when run or does not.
DoWork(panics) ==
    /\ mainPc = "work"
    /\ Len(tasks) < MaxTasks
    /\ tasks' = Append(tasks, [panics |-> panics])
    /\ executed' = Append(executed, 0)
    /\ ranOn' = Append(ranOn, 0)
    /\ channel' = Append(channel, Work(Len(tasks) + 1))
    /\ UNCHANGED <<workerNum, worker, mainPc, resigns, joined, routerVars, httpVars>>

\* pool.join() is called: do_work can no longer be called (join takes self).
CallJoin ==
    /\ mainPc = "work"
    /\ mainPc' = "join"
    /\ UNCHANGED <<workerNum, channel, worker, tasks, executed, ranOn, resigns, joined, routerVars, httpVars>>

\* One iteration of join's first loop: send Resign.
SendResign ==
    /\ mainPc = "join"
    /\ resigns < ResignsToSend
    /\ channel' = Append(channel, Resign)
    /\ resigns' = resigns + 1
    /\ UNCHANGED <<workerNum, worker, tasks, executed, ranOn, mainPc, joined, routerVars, httpVars>>

\* One worker.join() of join's map, in worker creation order: it returns once the
\* worker's thread has ended, with the thread's result.
JoinWorker ==
    /\ mainPc = "join"
    /\ resigns >= ResignsToSend
    /\ Len(joined) < workerNum
    /\ worker[Len(joined) + 1].pc = "exited"
    /\ joined' = Append(joined, worker[Len(joined) + 1].result)
    /\ UNCHANGED <<workerNum, channel, worker, tasks, executed, ranOn, mainPc, resigns, routerVars, httpVars>>

\* join returns the collected Vec<WorkerResult>.
JoinReturn ==
    /\ mainPc = "join"
    /\ resigns >= ResignsToSend
    /\ Len(joined) = workerNum
    /\ mainPc' = "done"
    /\ UNCHANGED <<workerNum, channel, worker, tasks, executed, ranOn, resigns, joined, routerVars, httpVars>>

\* What a worker does with a received message: Work starts the task, Resign breaks
\* the loop and the thread ends with its result.
OnMessage(w, message) ==
    IF message.kind = "Work"
    THEN [worker[w] EXCEPT !.pc = "work", !.task = message.task]
    ELSE [worker[w] EXCEPT !.pc = "exited",
                           !.result = WorkerResultOf(worker[w].panic_occurred)]

\* Worker w's receiver.recv() returns a message. (recv gives None only once every
\* sender is dropped; the pool keeps its sender until join has returned.)
Recv(w) ==
    /\ worker[w].pc = "recv"
    /\ channel # <<>>
    /\ LET r == Receive(channel)
       IN  /\ channel' = r.rest
           /\ worker' = [worker EXCEPT ![w] = OnMessage(w, r.message)]
    /\ UNCHANGED <<workerNum, tasks, executed, ranOn, mainPc, resigns, joined, routerVars, httpVars>>

\* A worker without catch_unwind: the panic unwinds the thread.
AfterWorkUncaught(w, panicked) ==
    IF panicked
    THEN [worker[w] EXCEPT !.pc = "exited", !.task = 0, !.panic_occurred = TRUE,
                           !.result = "Panic"]
    ELSE [worker[w] EXCEPT !.pc = "recv", !.task = 0]

\* A worker whose flag records only its last task: panic_occurred = result.is_err().
AfterWorkLastOnly(w, panicked) ==
    [worker[w] EXCEPT !.pc = "recv", !.task = 0, !.panic_occurred = panicked]

\* The worker after catch_unwind(|| work(&state)) returned: a panic only sets
\* panic_occurred, and the loop goes on to the next recv.
AfterWork(w, panicked) ==
    [worker[w] EXCEPT !.pc = "recv", !.task = 0,
                      !.panic_occurred = IF panicked THEN TRUE ELSE @]

\* Worker w's task ends, by returning or by panicking.
FinishWork(w) ==
    /\ worker[w].pc = "work"
    /\ LET t == worker[w].task
       IN  /\ executed' = [executed EXCEPT ![t] = @ + 1]
           /\ ranOn' = [ranOn EXCEPT ![t] = w]
           /\ worker' = [worker EXCEPT ![w] = AfterWork(w, tasks[t].panics)]
    /\ UNCHANGED <<workerNum, channel, tasks, mainPc, resigns, joined, routerVars, httpVars>>

DoWorkAny == \E panics \in BOOLEAN : DoWork(panics)

RecvAny == \E w \in Workers : Recv(w)

FinishWorkAny == \E w \in Workers : FinishWork(w)

PoolNext ==
    DoWorkAny \/ CallJoin \/ SendResign \/ JoinWorker \/ JoinReturn \/ RecvAny
        \/ FinishWorkAny

----------------------------------------------------------------------------
(* Text: a string is a sequence of one-character strings *)

CR == "\r"
LF == "\n"
Whitespace == {" ", "\t", CR, LF}

UpperCase == <<"A", "B", "C", "D", "E", "F", "G", "H", "I", "J", "K", "L", "M",
               "N", "O", "P", "Q", "R", "S", "T", "U", "V", "W", "X", "Y", "Z">>
LowerCase == <<"a", "b", "c", "d", "e", "f", "g", "h", "i", "j", "k", "l", "m",
               "n", "o", "p", "q", "r", "s", "t", "u", "v", "w", "x", "y", "z">>

LowerChar(c) ==
    IF \E i \in 1..Len(UpperCase) : UpperCase[i] = c
    THEN LowerCase[CHOOSE i \in 1..Len(UpperCase) : UpperCase[i] = c]
    ELSE c

\* str::to_lowercase
to_lowercase(s) == [i \in 1..Len(s) |-> LowerChar(s[i])]

RECURSIVE TrimStart(_)
TrimStart(s) ==
    IF s # <<>> /\ Head(s) \in Whitespace THEN TrimStart(Tail(s)) ELSE s

RECURSIVE TrimEnd(_)
TrimEnd(s) ==
    IF s # <<>> /\ s[Len(s)] \in Whitespace THEN TrimEnd(SubSeq(s, 1, Len(s) - 1)) ELSE s

\* str::trim
trim(s) == TrimEnd(TrimStart(s))

\* str::split_whitespace: the maximal runs of non-whitespace characters, in order.
RECURSIVE SplitWs(_, _, _)
SplitWs(s, i, cur) ==
    IF i > Len(s) THEN (IF cur = <<>> THEN <<>> ELSE <<cur>>)
    ELSE IF s[i] \in Whitespace
         THEN (IF cur = <<>> THEN <<>> ELSE <<cur>>) \o SplitWs(s, i + 1, <<>>)
         ELSE SplitWs(s, i + 1, Append(cur, s[i]))

split_whitespace(s) == SplitWs(s, 1, <<>>)

\* str::find(':'): the 1-based position of the first occurrence, 0 for None.
find(s, c) ==
    IF \E i \in 1..Len(s) : s[i] = c
    THEN CHOOSE i \in 1..Len(s) : s[i] = c /\ \A j \in 1..(i - 1) : s[j] # c
    ELSE 0

\* str::as_bytes, for the ASCII characters the model's lines are made of.
ByteOf(c) ==
    IF \E i \in 1..Len(LowerCase) : LowerCase[i] = c
    THEN 96 + (CHOOSE i \in 1..Len(LowerCase) : LowerCase[i] = c)
    ELSE IF \E i \in 1..Len(UpperCase) : UpperCase[i] = c
    THEN 64 + (CHOOSE i \in 1..Len(UpperCase) : UpperCase[i] = c)
    ELSE IF c = "/" THEN Slash
    ELSE IF c = ":" THEN 58
    ELSE IF c = " " THEN 32
    ELSE IF c = CR THEN 13
    ELSE 10

as_bytes(s) == [i \in 1..Len(s) |-> ByteOf(s[i])]

----------------------------------------------------------------------------
(* HTTP connection handler *)

\* Most lines the client sends on the connection.
MaxLines == 4

\* A line as it arrives: its text followed by CRLF.
Line(text) == text \o <<CR, LF>>

ReqGetA == <<"G", "E", "T", " ", "/", "a">>
ReqPostB == <<"p", "o", "s", "t", " ", "/", "b">>
ReqNoPath == <<"G", "E", "T">>
Blank == <<>>
HdrClose == <<"C", "o", "n", "n", "e", "c", "t", "i", "o", "n", ":", " ", "c", "l", "o", "s", "e">>
HdrCloseLoud == <<"C", "O", "N", "N", "E", "C", "T", "I", "O", "N", " ", ":", "C", "l", "o", "s", "e", " ">>
HdrKeep == <<"C", "o", "n", "n", "e", "c", "t", "i", "o", "n", ":", " ", "k", "e", "e", "p">>
HdrHost == <<"H", "o", "s", "t", ":", " ", "x">>

\* The lines a client sends.
ClientLines == {Line(t) : t \in {ReqGetA, ReqPostB, ReqNoPath, Blank, HdrClose,
                                 HdrCloseLoud, HdrKeep, HdrHost}}

\* A try_from that compares the token as written, without to_lowercase.
RequestTypeTryFromExact(token) ==
    LET t == trim(token)
    IN  IF t = <<"g", "e", "t">> THEN Some("GET")
        ELSE IF t = <<"p", "o", "s", "t">> THEN Some("POST")
        ELSE None

\* RequestType::try_from: "get" and "post" in any letter case, anything else fails.
RequestTypeTryFrom(token) ==
    LET t == to_lowercase(trim(token))
    IN  IF t = <<"g", "e", "t">> THEN Some("GET")
        ELSE IF t = <<"p", "o", "s", "t">> THEN Some("POST")
        ELSE None

\* RequestType::try_from(request_type).unwrap_or(RequestType::GET)
RequestTypeOf(token) ==
    LET r == RequestTypeTryFrom(token) IN IF r.some THEN r.value ELSE "GET"

\* The header (name, value) of a line holding ':': split at the first ':', the value
\* trimmed.
HeaderOf(line) ==
    LET at == find(line, ":")
    IN  [name |-> SubSeq(line, 1, at - 1), value |-> trim(SubSeq(line, at + 1, Len(line)))]

\* A header test that compares as written, without to_lowercase.
IsConnectionCloseExact(header) ==
    /\ trim(header.name) = <<"c", "o", "n", "n", "e", "c", "t", "i", "o", "n">>
    /\ trim(header.value) = <<"c", "l", "o", "s", "e">>

\* The test that clears persist: "connection" == name.to_lowercase().trim() &&
\* "close" == value.to_lowercase().trim()
IsConnectionClose(header) ==
    /\ trim(to_lowercase(header.name)) = <<"c", "o", "n", "n", "e", "c", "t", "i", "o", "n">>
    /\ trim(to_lowercase(header.value)) = <<"c", "l", "o", "s", "e">>

\* A handle_connection activation at its start: a new BufReader (empty buffer) on the
\* stream, about to read the request line.
NewFrame ==
    [pc |-> "request_line", buf |-> <<>>, request_line |-> None,
     request_type |-> "GET", path |-> <<>>, persist |-> TRUE, headers |-> <<>>,
     lines |-> <<>>, routed |-> FALSE, result |-> "running"]

Top == frames[Len(frames)]

\* BufReader::read_line can return: buffered data, data on the socket, or end of file.
CanRead == Top.buf # <<>> \/ wire # <<>> \/ ~clientOpen

\* BufReader::read_line on the activation's reader: a buffered line if there is one;
\* else the reader fills its buffer with everything the socket holds and gives the
\* first line; at end of file the line is empty (0 bytes read).
ReadLine(buf, socket) ==
    IF buf # <<>> THEN [line |-> Head(buf), buf |-> Tail(buf), socket |-> socket]
    ELSE IF socket # <<>> THEN [line |-> Head(socket), buf |-> Tail(socket), socket |-> <<>>]
    ELSE [line |-> <<>>, buf |-> <<>>, socket |-> <<>>]

\* Outer activations that drop the result of the recursive call and return Ok.
ReturnAllSwallowed(fs, r) ==
    [i \in 1..Len(fs) |->
        [fs[i] EXCEPT !.pc = "returned", !.result = IF i = Len(fs) THEN r ELSE "Ok"]]

\* The innermost activation returns r; every activation waiting on it returns r
\* too (the recursive call's `?`, else Ok(())), and the stream is dropped.
ReturnAll(fs, r) == [i \in 1..Len(fs) |-> [fs[i] EXCEPT !.pc = "returned", !.result = r]]

\* The routes registered before listen: none, or a strict endpoint at "/a".
HttpRoutes ==
    {<<>>, <<[path |-> <<Slash, 97>>, endpoint |-> [id |-> 1, strict |-> TRUE]]>>}

RECURSIVE RouterOf(_)
RouterOf(routes) ==
    IF routes = <<>> THEN <<RouterDefault>>
    ELSE add_path(RouterOf(SubSeq(routes, 1, Len(routes) - 1)),
                  routes[Len(routes)].path, routes[Len(routes)].endpoint)

\* A connection was accepted and handle_connection called on it.
HttpInit ==
    /\ wire = <<>>
    /\ clientOpen = TRUE
    /\ sent = <<>>
    /\ frames = <<NewFrame>>
    /\ written = <<>>
    /\ routeCalls = <<>>
    /\ connResult = "running"

\* The client's next line arrives on the socket.
Send(line) ==
    /\ connResult = "running"
    /\ clientOpen
    /\ Len(sent) < MaxLines
    /\ wire' = Append(wire, line)
    /\ sent' = Append(sent, line)
    /\ UNCHANGED <<clientOpen, frames, written, routeCalls, connResult, routerVars, poolVars>>

\* The client closes its end: reads reach end of file after the pending data.
ClientClose ==
    /\ connResult = "running"
    /\ clientOpen
    /\ clientOpen' = FALSE
    /\ UNCHANGED <<wire, sent, frames, written, routeCalls, connResult, routerVars, poolVars>>

\* A read_line finds no data for 5 seconds: the read fails and `?` returns IoError.
\* (The read timeout is the one I/O failure modelled; set_read_timeout and
\* try_clone are taken to succeed.)
ReadTimeout ==
    /\ connResult = "running"
    /\ Top.pc \in {"request_line", "headers"}
    /\ Top.buf = <<>> /\ wire = <<>> /\ clientOpen
    /\ frames' = ReturnAll(frames, "IoError")
    /\ connResult' = "IoError"
    /\ UNCHANGED <<wire, clientOpen, sent, written, routeCalls, routerVars, poolVars>>

\* A request line check that gives the two errors the other way round.
RequestLineErrorSwapped(parts) ==
    IF Len(parts) = 0 THEN "PathNotPresent"
    ELSE IF Len(parts) = 1 THEN "HttpMethodNotPresent"
    ELSE "none"

\* parts.next().ok_or(HttpMethodNotPresent)? then parts.next().ok_or(PathNotPresent)?
RequestLineError(parts) ==
    IF Len(parts) = 0 THEN "HttpMethodNotPresent"
    ELSE IF Len(parts) = 1 THEN "PathNotPresent"
    ELSE "none"

\* The request line is read and split: method and path, or an error.
ReadRequestLine ==
    /\ connResult = "running"
    /\ Top.pc = "request_line"
    /\ CanRead
    /\ LET r == ReadLine(Top.buf, wire)
           parts == split_whitespace(r.line)
           err == RequestLineError(parts)
           read == [Top EXCEPT !.buf = r.buf, !.request_line = Some(r.line)]
       IN  /\ wire' = r.socket
           /\ IF err # "none"
              THEN /\ frames' = ReturnAll([frames EXCEPT ![Len(frames)] = read], err)
                   /\ connResult' = err
              ELSE /\ frames' = [frames EXCEPT ![Len(frames)] =
                                    [read EXCEPT !.pc = "headers",
                                                 !.request_type = RequestTypeOf(parts[1]),
                                                 !.path = parts[2]]]
                   /\ UNCHANGED connResult
    /\ UNCHANGED <<clientOpen, sent, written, routeCalls, routerVars, poolVars>>

\* One iteration of the header loop: an empty line ends it; a line with ':' is
\* recorded as a header and may clear persist; any other line is skipped.
ReadHeaderLine ==
    /\ connResult = "running"
    /\ Top.pc = "headers"
    /\ CanRead
    /\ LET r == ReadLine(Top.buf, wire)
           read == [Top EXCEPT !.buf = r.buf]
       IN  /\ wire' = r.socket
           /\ frames' = [frames EXCEPT ![Len(frames)] =
                IF trim(r.line) = <<>> THEN [read EXCEPT !.pc = "route"]
                ELSE IF find(r.line, ":") # 0
                THEN [read EXCEPT !.lines = Append(@, r.line),
                                  !.headers = Append(@, HeaderOf(r.line)),
                                  !.persist = IF IsConnectionClose(HeaderOf(r.line))
                                              THEN FALSE ELSE @]
                ELSE [read EXCEPT !.lines = Append(@, r.line)]]
    /\ UNCHANGED <<clientOpen, sent, written, routeCalls, connResult, routerVars, poolVars>>

\* What router.route makes the endpoint write for request number n: the endpoint
\* invoked, if any, writes its response to the stream it is given.
EndpointOutput(n, result) ==
    IF result.some
    THEN <<[request |-> n, by |-> "endpoint", endpoint |-> result.value.endpoint]>>
    ELSE <<>>

\* What handle_connection itself writes after router.route returned: the result is
\* discarded (let _ = ...), so nothing.
AfterRouteOutput(n, result) == <<>>

\* A handler that keeps the connection only when route invoked an endpoint.
RouteRequestUnroutedReturns ==
    /\ connResult = "running"
    /\ Top.pc = "route"
    /\ LET result == route(router, as_bytes(Top.path))
           done == [Top EXCEPT !.routed = TRUE]
       IN  /\ routeCalls' = Append(routeCalls,
                  [path |-> Top.path, request_type |-> Top.request_type,
                   headers |-> Top.headers, result |-> result, frame |-> Len(frames)])
           /\ written' = written \o EndpointOutput(Len(frames), result)
                                  \o AfterRouteOutput(Len(frames), result)
           /\ IF Top.persist /\ result.some
              THEN /\ frames' = Append([frames EXCEPT ![Len(frames)] =
                                           [done EXCEPT !.pc = "recurse"]], NewFrame)
                   /\ UNCHANGED connResult
              ELSE /\ frames' = ReturnAll([frames EXCEPT ![Len(frames)] = done], "Ok")
                   /\ connResult' = "Ok"
    /\ UNCHANGED <<wire, clientOpen, sent, routerVars, poolVars>>

\* request.build(), router.route(path, ...), then the recursive call when persist
\* is still set, else return Ok(()).
RouteRequest ==
    /\ connResult = "running"
    /\ Top.pc = "route"
    /\ LET result == route(router, as_bytes(Top.path))
           done == [Top EXCEPT !.routed = TRUE]
       IN  /\ routeCalls' = Append(routeCalls,
                  [path |-> Top.path, request_type |-> Top.request_type,
                   headers |-> Top.headers, result |-> result, frame |-> Len(frames)])
           /\ written' = written \o EndpointOutput(Len(frames), result)
                                  \o AfterRouteOutput(Len(frames), result)
           /\ IF Top.persist
              THEN /\ frames' = Append([frames EXCEPT ![Len(frames)] =
                                           [done EXCEPT !.pc = "recurse"]], NewFrame)
                   /\ UNCHANGED connResult
              ELSE /\ frames' = ReturnAll([frames EXCEPT ![Len(frames)] = done], "Ok")
                   /\ connResult' = "Ok"
    /\ UNCHANGED <<wire, clientOpen, sent, routerVars, poolVars>>

SendAny == \E line \in ClientLines : Send(line)

HttpNext ==
    SendAny \/ ClientClose \/ ReadTimeout \/ ReadRequestLine \/ ReadHeaderLine
        \/ RouteRequest

\* Request lines that differ in their method token: an unknown method, post and
\* get in mixed and lower case.
ReqFrobA == <<"F", "R", "O", "B", "N", "I", "C", "A", "T", "E", " ", "/", "a">>
ReqMixedPostA == <<"P", "o", "S", "t", " ", "/", "a">>
ReqLowerGetA == <<"g", "e", "t", " ", "/", "a">>

\* The lines of a client that tries methods.
MethodLines == {Line(t) : t \in {ReqFrobA, ReqMixedPostA, ReqLowerGetA, Blank, HdrClose}}

SendMethodAny == \E line \in MethodLines : Send(line)

HttpMethodsNext ==
    SendMethodAny \/ ClientClose \/ ReadTimeout \/ ReadRequestLine \/ ReadHeaderLine
        \/ RouteRequest

----------------------------------------------------------------------------
(* HttpServer::listen: the accept loop in front of the worker pool *)

\* How running the closure listen gives to do_work for one connection can end:
\* handle_connection returns Ok or one of its errors, or an endpoint panics in
\* router.route (the endpoints of main.rs unwrap the result of their write).
ConnOutcomes == {"Ok", "IoError", "HttpMethodNotPresent", "PathNotPresent", "panic"}

\* A closure that unwraps the handler's result instead of printing the error.
ClosureUnwraps(outcome) == outcome # "Ok"

\* Whether the closure unwinds: `if let Err(err) = handle_connection(..)` prints the
\* error and returns, so only a panic inside handle_connection leaves it unwinding.
ClosurePanics(outcome) == outcome = "panic"

\* listener.incoming() gives Ok(stream): the closure for the connection is sent to
\* the pool. (outcome is how running it will end.)
Accept(outcome) ==
    /\ mainPc = "work"
    /\ Len(tasks) < MaxTasks
    /\ tasks' = Append(tasks, [panics |-> ClosurePanics(outcome), outcome |-> outcome])
    /\ executed' = Append(executed, 0)
    /\ ranOn' = Append(ranOn, 0)
    /\ channel' = Append(channel, Work(Len(tasks) + 1))
    /\ UNCHANGED <<workerNum, worker, mainPc, resigns, joined, routerVars, httpVars>>

\* listener.incoming() gives Err(e): `let stream = stream?;` returns Err(IoError(e))
\* from listen at once. The pool is dropped with the function's locals: its sender
\* is gone and its threads are detached, not joined.
AcceptError ==
    /\ mainPc = "work"
    /\ mainPc' = "accept_error"
    /\ UNCHANGED <<workerNum, channel, worker, tasks, executed, ranOn, resigns, joined, routerVars, httpVars>>

\* Worker w's receiver.recv() returns None: the channel is empty and its only
\* sender was dropped. The while-let loop ends and the thread returns its result.
RecvDisconnected(w) ==
    /\ mainPc = "accept_error"
    /\ worker[w].pc = "recv"
    /\ channel = <<>>
    /\ worker' = [worker EXCEPT ![w].pc = "exited",
                               ![w].result = WorkerResultOf(worker[w].panic_occurred)]
    /\ UNCHANGED <<workerNum, channel, tasks, executed, ranOn, mainPc, resigns, joined, routerVars, httpVars>>

AcceptAny == \E outcome \in ConnOutcomes : Accept(outcome)

RecvDisconnectedAny == \E w \in Workers : RecvDisconnected(w)

\* Incoming::next never gives None, so the for loop ends only through AcceptError
\* and the workers.join() after it is never reached.
ListenNext == AcceptAny \/ AcceptError \/ RecvAny \/ FinishWorkAny \/ RecvDisconnectedAny

----------------------------------------------------------------------------
(* One connection served through the pool: listen, a worker, handle_connection *)

\* The lines the client of the served connection sends.
ServeLines == {Line(ReqGetA), Line(Blank), Line(HdrClose)}

\* listener.incoming() gives the connection: its closure, which owns the stream, is
\* sent to the pool. (The model's endpoints do not panic.)
ServeAccept ==
    /\ mainPc = "work"
    /\ tasks = <<>>
    /\ tasks' = <<[panics |-> FALSE]>>
    /\ executed' = <<0>>
    /\ ranOn' = <<0>>
    /\ channel' = Append(channel, Work(1))
    /\ clientOpen' = TRUE
    /\ connResult' = "running"
    /\ UNCHANGED <<workerNum, worker, mainPc, resigns, joined, wire, sent, frames, written, routeCalls, routerVars>>

\* A worker is running the connection's closure.
Handlers == {w \in Workers : worker[w].pc = "work" /\ worker[w].task = 1}

\* The closure calls handle_connection(stream, router): the outermost activation.
ServeStart ==
    /\ Handlers # {}
    /\ frames = <<>>
    /\ frames' = <<NewFrame>>
    /\ UNCHANGED <<wire, clientOpen, sent, written, routeCalls, connResult, routerVars, poolVars>>

\* The steps of handle_connection, taken by the thread that runs the closure.
Handling == Handlers # {} /\ frames # <<>>

ServeReadTimeout == Handling /\ ReadTimeout

ServeReadRequestLine == Handling /\ ReadRequestLine

ServeReadHeaderLine == Handling /\ ReadHeaderLine

ServeRouteRequest == Handling /\ RouteRequest

\* handle_connection returned to the closure, which prints an error if there is
\* one and returns to the worker.
ServeReturn == \E w \in Workers : connResult # "running" /\ frames # <<>> /\ FinishWork(w)

ServeSendAny == \E line \in ServeLines : Send(line)

ServeNext ==
    ServeAccept \/ RecvAny \/ ServeStart \/ ServeSendAny \/ ClientClose
        \/ ServeReadTimeout \/ ServeReadRequestLine \/ ServeReadHeaderLine
        \/ ServeRouteRequest \/ ServeReturn

----------------------------------------------------------------------------
(* Specifications *)

\* A pool that is not used: no workers, already joined.
PoolIdle ==
    /\ workerNum = 0
    /\ channel = <<>>
    /\ worker = <<>>
    /\ tasks = <<>>
    /\ executed = <<>>
    /\ ranOn = <<>>
    /\ mainPc = "done"
    /\ resigns = 0
    /\ joined = <<>>

\* No connection: nothing to read, the handler returned.
HttpIdle ==
    /\ wire = <<>>
    /\ clientOpen = FALSE
    /\ sent = <<>>
    /\ frames = <<>>
    /\ written = <<>>
    /\ routeCalls = <<>>
    /\ connResult = "Ok"

InitRouter == RouterInit /\ PoolIdle /\ HttpIdle

SpecRouter == InitRouter /\ [][RouterNext]_vars

\* The router used with path strings that may hold a 0 byte.
InitRouterNul == RouterInit /\ PoolIdle /\ HttpIdle

SpecRouterNul == InitRouterNul /\ [][RouterNulNext]_vars

InitPool == PoolInit /\ RouterInit /\ HttpIdle

SpecPool == InitPool /\ [][PoolNext]_vars

\* The threads are scheduled by the operating system: a thread that can take a step
\* eventually takes it. Calling do_work and join is up to the pool's owner, and
\* every task terminates.
PoolFairness ==
    /\ WF_vars(SendResign)
    /\ WF_vars(JoinWorker)
    /\ WF_vars(JoinReturn)
    /\ \A w \in 1..MaxWorkers : WF_vars(w \in Workers /\ Recv(w))
    /\ \A w \in 1..MaxWorkers : WF_vars(w \in Workers /\ FinishWork(w))

FairSpecPool == SpecPool /\ PoolFairness

\* The routes are registered before listen; the router is then frozen.
HttpRouterInit ==
    /\ registered \in HttpRoutes
    /\ router = RouterOf(registered)
    /\ routed = NotRouted

InitHttp == HttpInit /\ HttpRouterInit /\ PoolIdle

SpecHttp == InitHttp /\ [][HttpNext]_vars

\* The same handler in front of a client that sends MethodLines.
InitHttpMethods == HttpInit /\ HttpRouterInit /\ PoolIdle

SpecHttpMethods == InitHttpMethods /\ [][HttpMethodsNext]_vars

\* listen(worker_num) has made its pool and is at the top of the accept loop.
InitListen == PoolInit /\ RouterInit /\ HttpIdle

SpecListen == InitListen /\ [][ListenNext]_vars

\* listen has made its pool and registered routes; no connection has come yet.
InitServe == PoolInit /\ HttpRouterInit /\ HttpIdle

SpecServe == InitServe /\ [][ServeNext]_vars

----------------------------------------------------------------------------
(* Claims about the router *)

\* Every registration so far is of a strict endpoint at a path of its own.
DistinctStrictPaths ==
    \A i, j \in DOMAIN registered :
        /\ registered[i].endpoint.strict
        /\ (i # j => registered[i].path # registered[j].path)

\* C1 (router round-trip): when pairwise-distinct paths were each registered with
\* their own strict endpoint, in any order, route(path_i) returns Some(the result
\* of endpoint_i.process) for every i.
C1_RoundTrip ==
    (routed.called /\ DistinctStrictPaths) =>
        \A i \in DOMAIN registered :
            registered[i].path = routed.path =>
                routed.result = Some(process(registered[i].endpoint, <<>>))

\* C9 (last write wins): after add_path(P, e1) and later add_path(P, e2), whatever
\* else was inserted, route(P) invokes e2 and only e2.
C9_LastWriteWins ==
    routed.called =>
        \A i, j \in DOMAIN registered :
            ( /\ i < j
              /\ registered[i].path = routed.path
              /\ registered[j].path = routed.path
              /\ \A k \in DOMAIN registered : k > j => registered[k].path # routed.path )
            => ( /\ routed.result.some
                 /\ routed.result.value.endpoint = registered[j].endpoint.id )

\* The child keys a node's matches holds: its 0-terminated byte strings, in order.
RECURSIVE DecodeFrom(_, _, _)
DecodeFrom(matches, i, cur) ==
    IF i > Len(matches) THEN <<>>
    ELSE IF matches[i] = NUL THEN <<cur>> \o DecodeFrom(matches, i + 1, <<>>)
    ELSE DecodeFrom(matches, i + 1, Append(cur, matches[i]))

ChildKeys(node) == DecodeFrom(node.matches, 1, <<>>)

\* C10 (child key uniqueness): after any sequence of add_path calls, the child
\* segment keys of every router node are pairwise distinct.
C10_ChildKeysDistinct ==
    \A n \in DOMAIN router :
        LET keys == ChildKeys(router[n])
        IN  \A i, j \in DOMAIN keys : i # j => keys[i] # keys[j]

----------------------------------------------------------------------------
(* Claims about the worker pool *)

AllExecutedOnce == \A t \in DOMAIN tasks : executed[t] = 1

\* C2 as stated (pool shutdown completeness): for any pool size, every task
\* submitted before join has been executed exactly once when join returns.
C2_ShutdownComplete == mainPc = "done" => AllExecutedOnce

\* C2 as amended: no task is ever run twice, and for any pool size of at least one
\* worker every task submitted before join has been executed exactly once when
\* join returns.
C2_ShutdownCompleteWithWorkers ==
    /\ \A t \in DOMAIN tasks : executed[t] <= 1
    /\ (mainPc = "done" /\ workerNum >= 1) => AllExecutedOnce

C2_Witness ==
    mainPc = "done" /\ workerNum >= 2 /\ Len(tasks) >= 2 /\ AllExecutedOnce

ExitedWorkers == {w \in Workers : worker[w].pc = "exited"}

QueuedResigns == {i \in DOMAIN channel : channel[i].kind = "Resign"}

\* C3 (pool panic isolation): a panicking task does not end its worker (workers
\* end only by taking a Resign), the worker's flag is set and its outcome is
\* Panic, and when join has returned every submitted task was executed.
C3_PanicIsolation ==
    /\ Cardinality(ExitedWorkers) = resigns - Cardinality(QueuedResigns)
    /\ \A t \in DOMAIN tasks :
        (tasks[t].panics /\ executed[t] >= 1) =>
            /\ worker[ranOn[t]].panic_occurred
            /\ worker[ranOn[t]].pc = "exited" => worker[ranOn[t]].result = "Panic"
            /\ mainPc = "done" => (AllExecutedOnce /\ joined[ranOn[t]] = "Panic")

\* The first task panicked, a later task ran after it on the same worker, and join
\* returned.
C3_Witness ==
    /\ mainPc = "done"
    /\ Len(tasks) >= 2
    /\ tasks[1].panics /\ ~tasks[2].panics
    /\ executed[1] = 1 /\ executed[2] = 1
    /\ ranOn[1] = ranOn[2]

RanPanickingTask(w) ==
    \E t \in DOMAIN tasks : ranOn[t] = w /\ executed[t] >= 1 /\ tasks[t].panics

\* C4 (join outcomes): join returns only after every worker has exited, with exactly
\* worker_count outcomes in worker creation order; the i-th is Panic if and only
\* if the i-th worker executed a panicking task, else Ok.
C4_JoinOutcomes ==
    mainPc = "done" =>
        /\ \A w \in Workers : worker[w].pc = "exited"
        /\ Len(joined) = workerNum
        /\ \A i \in DOMAIN joined :
            joined[i] = (IF RanPanickingTask(i) THEN "Panic" ELSE "Ok")

\* Two workers, exactly one panicking task: one Panic and one Ok.
C4_Witness ==
    /\ mainPc = "done"
    /\ workerNum = 2
    /\ Cardinality({t \in DOMAIN tasks : tasks[t].panics}) = 1
    /\ {joined[i] : i \in DOMAIN joined} = {"Panic", "Ok"}

\* C5 (shutdown liveness): once join is called it eventually returns, and a pool
\* with no submitted tasks joins with every outcome Ok.
C5_JoinReturns ==
    /\ (mainPc = "join") ~> (mainPc = "done")
    /\ [](mainPc = "done" /\ tasks = <<>> =>
            Len(joined) = workerNum /\ \A i \in DOMAIN joined : joined[i] = "Ok")

\* join returned on a pool of several workers that was given no task.
C5_Witness ==
    /\ mainPc = "done" /\ workerNum >= 2 /\ tasks = <<>>
    /\ \A i \in DOMAIN joined : joined[i] = "Ok"

----------------------------------------------------------------------------
(* Claims about the connection handler *)

\* C6 (no route, 404): every request whose path matches no route gets a response
\* written to the connection (a 404 endpoint's output or the built-in 404).
C6_NotFoundAnswered ==
    \A k \in DOMAIN routeCalls :
        ~routeCalls[k].result.some => \E i \in DOMAIN written : written[i].request = k

\* The sent lines that are request lines (method and path) and those that end a
\* header block, as the client means them.
RequestLines == {Line(ReqGetA), Line(ReqPostB)}
CloseLines == {Line(HdrClose), Line(HdrCloseLoud)}
PathSentIn(line) == IF line = Line(ReqGetA) THEN <<"/", "a">> ELSE <<"/", "b">>

\* sent[from..to] is one complete request: a request line, header lines, a blank line.
CompleteRequest(from, to) ==
    /\ from < to /\ to <= Len(sent)
    /\ sent[from] \in RequestLines
    /\ sent[to] = Line(Blank)
    /\ \A i \in (from + 1)..(to - 1) : sent[i] \notin RequestLines \cup {Line(Blank)}

\* C7 (keep-alive): a complete request without Connection: close followed by a
\* second complete request makes router.route run twice, in arrival order, before
\* handle_connection returns.
C7_KeepAlive ==
    connResult # "running" =>
        \A i, j \in DOMAIN sent :
            ( /\ CompleteRequest(1, i)
              /\ \A h \in 2..(i - 1) : sent[h] \notin CloseLines
              /\ CompleteRequest(i + 1, j) )
            => ( /\ Len(routeCalls) >= 2
                 /\ routeCalls[1].path = PathSentIn(sent[1])
                 /\ routeCalls[2].path = PathSentIn(sent[i + 1]) )

\* The request an activation read carried a Connection: close header.
CarriedClose(f) == \E i \in DOMAIN f.lines : f.lines[i] \in CloseLines

\* C8 (Connection: close): after routing a request that carried a header named
\* connection with value close (any letter case, trimmed), handle_connection
\* returns Ok without a further activation, so nothing more is read from the
\* socket; after routing any other request it handles another one on the socket.
C8_ConnectionClose ==
    \A k \in DOMAIN frames :
        frames[k].routed =>
            IF CarriedClose(frames[k])
            THEN Len(frames) = k /\ frames[k].pc = "returned" /\ connResult = "Ok"
            ELSE Len(frames) > k

\* A request with CONNECTION : Close was routed and the handler returned although
\* the client had sent more.
C8_Witness ==
    /\ Len(frames) = 1 /\ frames[1].routed
    /\ \E i \in DOMAIN frames[1].lines : frames[1].lines[i] = Line(HdrCloseLoud)
    /\ connResult = "Ok"
    /\ (wire # <<>> \/ frames[1].buf # <<>>)

----------------------------------------------------------------------------
(* Claims about the router, continued *)

\* The segment each node of the arena was created for, indexed like the arena
\* (the root's entry is a placeholder): a registration that adds k nodes adds them
\* for the last k segments of its path, in order.
RECURSIVE CreatedKeys(_)
CreatedKeys(regs) ==
    IF regs = <<>> THEN << <<>> >>
    ELSE LET prev == SubSeq(regs, 1, Len(regs) - 1)
             parts == RouterPathFrom(regs[Len(regs)].path)
             k == Len(RouterOf(regs)) - Len(RouterOf(prev))
         IN  CreatedKeys(prev) \o SubSeq(parts, Len(parts) - k + 1, Len(parts))

NulCount(matches) == Cardinality({i \in DOMAIN matches : matches[i] = NUL})

\* C11 (sentinel invariant): after any sequence of add_path calls whose segments
\* hold no 0 byte, in every node the number of 0 bytes in matches equals the
\* length of routers, matches ends with a 0 byte when it is not empty, and the
\* i-th 0-terminated string in matches is the key the i-th child was created for.
C11_SentinelInvariant ==
    \A n \in DOMAIN router :
        LET node == router[n]
            keys == ChildKeys(node)
        IN  /\ NulCount(node.matches) = Len(node.routers)
            /\ node.matches # <<>> => node.matches[Len(node.matches)] = NUL
            /\ Len(keys) = Len(node.routers)
            /\ \A i \in DOMAIN node.routers :
                   keys[i] = CreatedKeys(registered)[node.routers[i]]

\* The root has three children and one of them has a child of its own.
C11_Witness ==
    /\ Len(router[1].routers) = 3
    /\ \E i \in DOMAIN router[1].routers : router[router[1].routers[i]].routers # <<>>

\* The node that holds the endpoint with this id, its parent, and its depth (the
\* number of segments on the way from the root to it).
HolderOf(id) ==
    CHOOSE n \in DOMAIN router :
        router[n].endpoint.some /\ router[n].endpoint.value.id = id

ParentOf(n) ==
    CHOOSE p \in DOMAIN router : \E i \in DOMAIN router[p].routers : router[p].routers[i] = n

RECURSIVE DepthOf(_)
DepthOf(n) == IF n = 1 THEN 0 ELSE 1 + DepthOf(ParentOf(n))

\* The last route call invoked an endpoint; the endpoint, the number of segments
\* that led to its node, and the segments of the looked-up path.
Invoked == routed.called /\ routed.result.some
InvokedEndpoint == registered[routed.result.value.endpoint].endpoint
MatchedSegments == DepthOf(HolderOf(routed.result.value.endpoint))
LookupSegments == RouterPathFrom(routed.path)

\* C12 (non-strict overload): whenever route invokes a non-strict endpoint after
\* its walk stopped at an unmatched segment, path_overload is the suffix of the
\* lookup segments from the last matched segment (inclusive) to the end.
C12_NonStrictOverload ==
    (Invoked /\ ~InvokedEndpoint.strict /\ MatchedSegments < Len(LookupSegments)) =>
        /\ MatchedSegments >= 1
        /\ routed.result.value.path_overload =
               SubSeq(LookupSegments, MatchedSegments, Len(LookupSegments))

\* A non-strict endpoint one segment deep was invoked for a path of two segments,
\* the first of them not empty.
C12_Witness ==
    /\ Invoked /\ ~InvokedEndpoint.strict
    /\ MatchedSegments = 1 /\ Len(LookupSegments) = 2
    /\ LookupSegments[1] # <<>>
    /\ Len(routed.result.value.path_overload) = 2

\* The walk route makes for the last looked-up path, and the node it stops at.
LookupWalk == RouteWalk(router, 1, LookupSegments, 1, None)
NodeReached == router[LookupWalk.cur]

\* C13 (strict match): route never invokes a strict endpoint unless every segment
\* of the lookup path was consumed by a matching child; when the walk stops at an
\* unmatched segment and the node reached holds a strict endpoint, route returns
\* None.
C13_StrictMatch ==
    /\ (Invoked /\ InvokedEndpoint.strict) =>
           /\ MatchedSegments = Len(LookupSegments)
           /\ ~LookupWalk.failed_to_match
    /\ ( /\ routed.called
         /\ LookupWalk.failed_to_match
         /\ NodeReached.endpoint.some
         /\ NodeReached.endpoint.value.strict ) => routed.result = None

\* The walk matched a segment, stopped at the next one in a node that holds a
\* strict endpoint, and route returned None.
C13_Witness ==
    /\ routed.called
    /\ LookupWalk.failed_to_match /\ LookupWalk.cur # 1
    /\ NodeReached.endpoint.some /\ NodeReached.endpoint.value.strict
    /\ routed.result = None

\* p is a segment-wise prefix of q.
SegPrefix(p, q) == Len(p) <= Len(q) /\ SubSeq(q, 1, Len(p)) = p

SegmentsOf(i) == RouterPathFrom(registered[i].path)

\* Registration i is the latest one made at its path.
LiveAt(i) == \A j \in DOMAIN registered : j > i => registered[j].path # registered[i].path

\* Every child of every node is found by a lookup of its key.
LookupsSucceed ==
    \A n \in DOMAIN router :
        LET keys == ChildKeys(router[n])
        IN  \A i \in DOMAIN keys : find_path_part_match(router[n], keys[i]) = Some(i - 1)

\* Some endpoint registered below registration i accepts the segments q: a strict
\* or non-strict one at q itself, or a non-strict one at a longer prefix of q.
AcceptedMorePrecisely(i, q) ==
    \E j \in DOMAIN registered :
        /\ LiveAt(j)
        /\ SegPrefix(SegmentsOf(i), SegmentsOf(j)) /\ SegmentsOf(j) # SegmentsOf(i)
        /\ \/ SegmentsOf(j) = q
           \/ ~registered[j].endpoint.strict /\ SegPrefix(SegmentsOf(j), q)

\* C14 (non-strict fallback), taken on routers where every child lookup succeeds:
\* if a non-strict endpoint is registered at P, the lookup path Q has P as a
\* proper segment-prefix and no registered endpoint accepts Q more precisely, then
\* route(Q) invokes P's endpoint, whatever other paths are registered, paths
\* that extend P included.
C14_NonStrictFallback ==
    (routed.called /\ LookupsSucceed) =>
        \A i \in DOMAIN registered :
            ( /\ LiveAt(i)
              /\ ~registered[i].endpoint.strict
              /\ SegPrefix(SegmentsOf(i), LookupSegments)
              /\ SegmentsOf(i) # LookupSegments
              /\ ~AcceptedMorePrecisely(i, LookupSegments) )
            => ( /\ routed.result.some
                 /\ routed.result.value.endpoint = registered[i].endpoint.id )

\* C15 (path_overload on an exact match): when every segment of the lookup path
\* matched, the endpoint, strict or non-strict, is invoked with an empty
\* path_overload.
C15_ExactOverloadEmpty ==
    (Invoked /\ MatchedSegments = Len(LookupSegments)) =>
        routed.result.value.path_overload = <<>>

----------------------------------------------------------------------------
(* Claims about the connection handler, continued *)

\* The whitespace-separated tokens of a line, counted by where they start.
TokenCount(line) ==
    Cardinality({i \in DOMAIN line :
        line[i] \notin Whitespace /\ (i = 1 \/ line[i - 1] \in Whitespace)})

\* The activation k returned this error, which ended the connection, without a
\* route call and without anything written for its request.
FailedUnrouted(k, err) ==
    /\ frames[k].result = err /\ connResult = err
    /\ Len(frames) = k
    /\ ~frames[k].routed
    /\ \A c \in DOMAIN routeCalls : routeCalls[c].frame # k
    /\ \A i \in DOMAIN written : written[i].request # k

\* C16 (malformed request line): a request line without any token makes the
\* handler return HttpMethodNotPresent, one with exactly one token PathNotPresent;
\* in both cases router.route is not invoked for that request and nothing is
\* written to the socket.
C16_MalformedRequestLine ==
    \A k \in DOMAIN frames :
        frames[k].request_line.some =>
            LET n == TokenCount(frames[k].request_line.value)
            IN  /\ n = 0 => FailedUnrouted(k, "HttpMethodNotPresent")
                /\ n = 1 => FailedUnrouted(k, "PathNotPresent")
                /\ (n >= 2 /\ k = Len(frames)) =>
                       frames[k].result \notin {"HttpMethodNotPresent", "PathNotPresent"}

\* After a first request was routed and answered, the second request line was the
\* single token GET and the handler returned PathNotPresent.
C16_Witness ==
    /\ Len(frames) = 2
    /\ frames[2].request_line = Some(Line(ReqNoPath))
    /\ connResult = "PathNotPresent"
    /\ written # <<>>

----------------------------------------------------------------------------
(* Claims about listen *)

RanPanickingConnection(w) ==
    \E t \in DOMAIN tasks : ranOn[t] = w /\ executed[t] >= 1 /\ tasks[t].outcome = "panic"

\* C17 (per-connection error containment): when handle_connection returns an error
\* for one connection, the worker that ran it neither exits nor records a panic
\* (a worker's flag is set only by a connection that panicked, and a worker ends
\* only when listen is gone and nothing is queued), and it goes on to serve the
\* connections submitted after it.
C17_ErrorContainment ==
    /\ \A w \in Workers :
        /\ worker[w].panic_occurred => RanPanickingConnection(w)
        /\ worker[w].pc = "exited" => (mainPc = "accept_error" /\ channel = <<>>)
    /\ (workerNum >= 1 /\ \A w \in Workers : worker[w].pc = "exited") => AllExecutedOnce

\* One worker ran a connection whose handler returned IoError and, after it, the
\* next connection; its flag is still clear.
C17_Witness ==
    /\ Len(tasks) = 2
    /\ tasks[1].outcome = "IoError"
    /\ executed[1] = 1 /\ executed[2] = 1
    /\ ranOn[1] = ranOn[2]
    /\ ~worker[ranOn[1]].panic_occurred

\* C18 (listen shutdown): when the accept loop ends on an accept error, the error
\* is returned and the pool is joined (a Resign sent to every worker, every worker
\* thread exited, every outcome collected) before listen returns.
C18_ListenJoinsPool ==
    mainPc = "accept_error" =>
        /\ resigns = workerNum
        /\ \A w \in Workers : worker[w].pc = "exited"
        /\ Len(joined) = workerNum

RECURSIVE IsSubsequence(_, _)
IsSubsequence(a, b) ==
    IF a = <<>> THEN TRUE
    ELSE IF b = <<>> THEN FALSE
    ELSE IF Head(a) = Head(b) THEN IsSubsequence(Tail(a), Tail(b))
    ELSE IsSubsequence(a, Tail(b))

\* The request lines the activations have read from the socket so far, in the
\* order of the activations (an empty read is end of file, not a line).
RECURSIVE RequestLinesRead(_)
RequestLinesRead(k) ==
    IF k = 0 THEN <<>>
    ELSE LET f == frames[k]
         IN  RequestLinesRead(k - 1) \o
                 (IF f.request_line.some /\ f.request_line.value # <<>>
                  THEN <<f.request_line.value>> ELSE <<>>)

\* C19 (per-connection ordering): all requests of one connection are handled by
\* the single worker that claimed the connection's task (at most one worker runs
\* it, it is run once, and the handler moves only while that worker runs it),
\* strictly in arrival order: request k+1 is not parsed or routed before the route
\* call for request k has returned.
C19_ConnectionOrdering ==
    /\ Cardinality(Handlers) <= 1
    /\ tasks # <<>> =>
        /\ executed[1] <= 1
        /\ frames # <<>> => (IF executed[1] = 0 THEN Cardinality(Handlers) = 1
                             ELSE Handlers = {} /\ connResult # "running")
        /\ (Handlers = {} /\ executed[1] = 0) => (frames = <<>> /\ written = <<>>)
    /\ \A k \in DOMAIN frames :
        k < Len(frames) => frames[k].routed /\ frames[k].pc \in {"recurse", "returned"}
    /\ Len(routeCalls) <= Len(frames)
    /\ \A c \in DOMAIN routeCalls : routeCalls[c].frame = c /\ frames[c].request_line.some
    /\ IsSubsequence(RequestLinesRead(Len(frames)), sent)

\* With two workers in the pool, one of them routed two requests of the connection
\* and returned; the other never ran anything.
C19_Witness ==
    /\ workerNum = 2
    /\ Len(routeCalls) = 2
    /\ tasks # <<>> /\ executed[1] = 1
    /\ written # <<>>

----------------------------------------------------------------------------
(* Claims about the router: totality *)

----------------------------------------------------------------------------
(* Claims about the connection handler: method, result, keep-alive *)

\* The text of a line before its first whitespace character.
FirstToken(line) ==
    LET stops == {i \in DOMAIN line : line[i] \in Whitespace}
        stop == IF stops = {} THEN Len(line) + 1
                ELSE CHOOSE i \in stops : \A j \in stops : i <= j
    IN  SubSeq(line, 1, stop - 1)

\* token is word (given in lower case) up to the case of its letters.
SameIgnoringCase(token, word) ==
    /\ Len(token) = Len(word)
    /\ \A i \in DOMAIN word :
        \E l \in DOMAIN LowerCase :
            LowerCase[l] = word[i] /\ token[i] \in {LowerCase[l], UpperCase[l]}

MethodMeant(token) ==
    IF SameIgnoringCase(token, <<"p", "o", "s", "t">>) THEN "POST" ELSE "GET"

\* C21 (method default): the request given to the endpoint has method GET when
\* the method token is get in any letter case, POST when it is post in any letter
\* case, and GET for every other token; an unrecognized method never produces an
\* error.
C21_MethodDefault ==
    /\ \A c \in DOMAIN routeCalls :
        routeCalls[c].request_type =
            MethodMeant(FirstToken(frames[routeCalls[c].frame].request_line.value))
    /\ \A k \in DOMAIN frames :
        (frames[k].request_line.some /\ TokenCount(frames[k].request_line.value) >= 2) =>
            /\ frames[k].pc # "request_line"
            /\ (k = Len(frames) =>
                  frames[k].result \notin {"HttpMethodNotPresent", "PathNotPresent"})

\* Two requests were routed on one connection: FROBNICATE as GET, then PoSt as
\* POST.
C21_Witness ==
    /\ Len(routeCalls) = 2
    /\ frames[1].request_line = Some(Line(ReqFrobA)) /\ routeCalls[1].request_type = "GET"
    /\ frames[2].request_line = Some(Line(ReqMixedPostA)) /\ routeCalls[2].request_type = "POST"

----------------------------------------------------------------------------
(* Claims about the router: child lookup, 0 bytes, insertion frame *)

\* The segments a path string of the model can hold: no '/', no 0 byte.
Segments == Strings(PathBytes \ {Slash}, MaxPathLen)

\* C22 (child lookup correctness): for every node produced by add_path and every
\* segment s without a 0 byte, find_path_part_match(s) returns Some(i) if and
\* only if some child's key equals s, and then i is the index of such a child; it
\* returns None only when no child key equals s, also when s is empty or is a
\* proper prefix of a key stored earlier in matches.
C22_ChildLookup ==
    \A n \in DOMAIN router : \A s \in Segments :
        LET keys == ChildKeys(router[n])
            m == find_path_part_match(router[n], s)
        IN  /\ m.some <=> \E i \in DOMAIN keys : keys[i] = s
            /\ m.some => (m.value + 1 \in DOMAIN keys /\ keys[m.value + 1] = s)

HoldsNul(path) == \E i \in DOMAIN path : path[i] = NUL

\* The add_path calls made so far with a path free of 0 bytes.
AcceptedRegistrations ==
    LET Clean(r) == ~HoldsNul(r.path) IN SelectSeq(registered, Clean)

\* C23 (0 byte in a segment): add_path rejects a path holding a 0 byte inside a
\* segment and leaves the router unchanged, so in every node the number of 0
\* bytes in matches still equals the number of children and no later lookup
\* indexes a child that does not exist.
C23_NulRejected ==
    /\ router = RouterOf(AcceptedRegistrations)
    /\ \A n \in DOMAIN router : NulCount(router[n].matches) = Len(router[n].routers)
    /\ \A p \in NulPaths : ~add_path_panics(router, p)
    /\ routed.called => routed.result # Panicked

----------------------------------------------------------------------------
(* Claims about the worker pool: dispatch order, Resign accounting *)

\* Task t has been taken from the channel (a worker runs it or has run it).
Claimed(t) == \A i \in DOMAIN channel : channel[i] # Work(t)

Running(t) == \E w \in Workers : worker[w].pc = "work" /\ worker[w].task = t

\* C24 (FIFO dispatch): tasks are claimed in submission order (a task is taken
\* from the channel no later than any task submitted after it), a worker runs one
\* task at a time and a task runs on one worker, and a pool of one worker executes
\* the tasks in exactly their submission order.
C24_FifoDispatch ==
    /\ \A t1, t2 \in DOMAIN tasks : (t1 < t2 /\ Claimed(t2)) => Claimed(t1)
    /\ \A t \in DOMAIN tasks :
        /\ Claimed(t) <=> (Running(t) \/ executed[t] >= 1)
        /\ Cardinality({w \in Workers : worker[w].pc = "work" /\ worker[w].task = t}) <= 1
        /\ ~(Running(t) /\ executed[t] >= 1)
    /\ workerNum = 1 =>
        \A t1, t2 \in DOMAIN tasks :
            (t1 < t2 /\ (Running(t2) \/ executed[t2] >= 1)) => executed[t1] = 1

\* The only worker has run the first task and is running the second.
C24_Witness ==
    /\ workerNum = 1
    /\ Len(tasks) = 2
    /\ executed[1] = 1 /\ Running(2)

\* What C25 says of the Resign messages while the pool runs: never more than
\* worker_count are sent, all are sent before the first worker is joined, and each
\* exited worker has consumed exactly one of them.
ResignsAccounted ==
    /\ resigns <= workerNum
    /\ (joined # <<>> \/ mainPc = "done") => resigns = workerNum
    /\ Cardinality(ExitedWorkers) = resigns - Cardinality(QueuedResigns)
    /\ \A w \in Workers : worker[w].pc = "exited" => mainPc \in {"join", "done"}

\* C25 as stated (Resign accounting): join sends exactly worker_count Resign
\* messages, each worker consumes exactly one and exits only upon receiving it, so
\* when join returns the channel holds no Work and no Resign message.
C25_ResignAccounting ==
    /\ ResignsAccounted
    /\ mainPc = "done" => channel = <<>>

\* C25 as amended: the same accounting; when join returns the channel holds no
\* Resign message, and no Work message if the pool has at least one worker.
C25_ResignAccountingWithWorkers ==
    /\ ResignsAccounted
    /\ mainPc = "done" =>
        /\ QueuedResigns = {}
        /\ workerNum >= 1 => channel = <<>>

\* join returned on a pool of two workers that ran two tasks; nothing is queued.
C25_Witness ==
    /\ mainPc = "done" /\ workerNum = 2 /\ resigns = 2
    /\ Len(tasks) = 2 /\ AllExecutedOnce
    /\ channel = <<>>

\* The path of the add_path call a step makes.
AddedPath == registered'[Len(registered')].path

\* C26 (insertion frame), taken on routers where every child lookup succeeds:
\* add_path(P, e) does not change the outcome of route(Q) for any lookup path Q
\* different from P of which P is not a segment-prefix; the same endpoint with
\* the same path_overload before and after, or None before and after.
C26_InsertionFrame ==
    [][ (registered' # registered /\ LookupsSucceed /\ LookupsSucceed') =>
            \A q \in Paths :
                (q # AddedPath /\ ~SegPrefix(RouterPathFrom(AddedPath), RouterPathFrom(q)))
                    => route(router', q) = route(router, q) ]_vars

LastFrame == frames[Len(frames)]

\* C27 (result of a connection): handle_connection returns Ok only if the last
\* request it processed carried Connection: close; a connection that ends any
\* other way ends with HttpMethodNotPresent, PathNotPresent or IoError, and the
\* result is that of every recursive level.
C27_OkOnlyAfterClose ==
    connResult # "running" =>
        /\ connResult \in {"Ok", "HttpMethodNotPresent", "PathNotPresent", "IoError"}
        /\ connResult = "Ok" <=> (LastFrame.routed /\ CarriedClose(LastFrame))
        /\ \A k \in DOMAIN frames :
            frames[k].pc = "returned" /\ frames[k].result = connResult

\* A keep-alive request was routed and the client went idle: the read timeout of
\* the second activation is the result of both.
C27_Witness ==
    /\ Len(frames) = 2
    /\ frames[1].routed /\ ~CarriedClose(frames[1])
    /\ connResult = "IoError"
    /\ frames[1].result = "IoError" /\ frames[2].result = "IoError"

\* The route call made for the request of activation k.
RouteCallOf(k) == routeCalls[CHOOSE c \in DOMAIN routeCalls : routeCalls[c].frame = k]

\* C28 (keep-alive does not depend on routing): whether the handler goes on after
\* a request is decided by the request's Connection header alone. After a request
\* without Connection: close for which route returned None there is a further
\* activation reading from the same socket; after a request with Connection:
\* close the handler returns Ok even if route invoked an endpoint.
C28_KeepAliveIgnoresRouting ==
    \A k \in DOMAIN frames :
        frames[k].routed =>
            /\ (~RouteCallOf(k).result.some /\ ~CarriedClose(frames[k])) =>
                   /\ Len(frames) > k
                   /\ frames[k].pc \in {"recurse", "returned"}
            /\ (RouteCallOf(k).result.some /\ CarriedClose(frames[k])) =>
                   /\ Len(frames) = k
                   /\ connResult = "Ok"
            /\ \A j \in DOMAIN frames :
                   (frames[j].routed /\ CarriedClose(frames[j]) = CarriedClose(frames[k]))
                       => ((Len(frames) > j) <=> (Len(frames) > k))

\* A request for a path without a route and without Connection: close was routed
\* to None, and the next activation has read the next request line from the socket.
C28_Witness ==
    /\ Len(frames) >= 2
    /\ frames[1].routed /\ ~CarriedClose(frames[1])
    /\ RouteCallOf(1).result = None
    /\ frames[2].request_line.some /\ frames[2].request_line.value \in RequestLines

====
